---- MODULE Spec2Model ----
(***************************************************************************)
(* A model of WiiVFF (src/src/lib.rs): the VFF container header, the FAT16 *)
(* allocation table and its chain walk, the cluster store, the directory  *)
(* record codec, Directory::read / Directory::get and the recursive tree  *)
(* walk behind ls and dump.                                                *)
(*                                                                         *)
(* Four specifications share the variables:                                *)
(*   SpecClass   the four link classification predicates over 16 bits      *)
(*   SpecHeader  VFF::new up to the root directory read                    *)
(*   SpecChain   FAT::get_chain, one loop iteration per step               *)
(*   Spec        ls / dump over a small container image                    *)
(***************************************************************************)
EXTENDS Integers, Sequences, FiniteSets, TLC

VARIABLES
    \* ---- SpecClass
    x,            \* the link value being classified
    cls,          \* the four predicate results
    \* ---- SpecHeader
    inMagic,      \* the inputs the header bytes were encoded from
    inV,
    inR,
    hdr,          \* the first 0x10 bytes of the container
    fdlen,        \* length of the byte source
    fdpos,        \* stream position of the byte source
    hpc,          \* position inside VFF::new
    hres,         \* what check_header returned
    fatres,       \* what FAT::new returned
    vffres,       \* what VFF::new returned
    \* ---- SpecChain (and the chain walk inside Spec)
    table,        \* FAT.clusters
    start,        \* argument of get_chain
    current,      \* get_chain's local `current`
    chain,        \* get_chain's local `chain`
    gcpc,         \* position inside get_chain
    gcres,        \* what get_chain returned
    \* ---- Spec: ls / dump
    mode,         \* "ls" or "dump"
    show_deleted, \* the include_deleted argument
    root_data,    \* the root Directory's data
    disk,         \* the bytes of the source from data_offset on
    pc,           \* position of the walk
    stack,        \* the active calls of do_operation_recursive, innermost last
    getm,         \* Directory::get: the record that matched
    rc,           \* VFF::read_chain: clusters, position, bytes read so far
    child,        \* the Directory that get returned
    file_bytes,   \* the file contents that get returned
    borrows,      \* outstanding RefMut<VFF> of the shared handle
    ret,          \* what ls / dump returned
    hostfs,       \* files of the host filesystem
    hostdirs,     \* directories of the host filesystem
    \* ---- history of the walk, read by the claims only
    reads,        \* store reads so far
    decodes,      \* records decoded so far
    failed,       \* a step has failed
    swallowed,    \* a failed write went unreported
    seen,         \* the records the walk has processed, with their directory
    returned      \* what each finished do_operation_recursive returned

classVars  == <<x, cls>>
headerVars == <<inMagic, inV, inR, hdr, fdlen, fdpos, hpc, hres, fatres, vffres>>
chainVars  == <<table, start, current, chain, gcpc, gcres>>

walkVars  == <<mode, show_deleted, root_data, disk, pc, stack, getm, rc, child,
               file_bytes, borrows, ret, hostfs, hostdirs>>
histVars  == <<reads, decodes, failed, swallowed, seen, returned>>

vars == <<classVars, headerVars, chainVars, walkVars, histVars>>

----------------------------------------------------------------------------
(* Machine arithmetic                                                      *)

\* TLC's integers are 32-bit signed: u32 quantities are drawn below 2^31, and the
\* one u32 complement of the code, `a & !m`, is computed as a - (a & m), which is
\* the same number at every width.
U16 == 2^16
MaxInt == 2147483647

RECURSIVE BitAnd(_, _)
BitAnd(a, b) ==
    IF a = 0 \/ b = 0 THEN 0
    ELSE (IF a % 2 = 1 /\ b % 2 = 1 THEN 1 ELSE 0) + 2 * BitAnd(a \div 2, b \div 2)

\* `a & !m`
AndNot(a, m) == a - BitAnd(a, m)

Min(a, b) == IF a < b THEN a ELSE b

----------------------------------------------------------------------------
(* Bounds of the model                                                     *)

\* entries of the allocation table
TableLen == 3
\* get_chain is followed for at most this many clusters
MaxChain == 5
\* records of the root directory region
RootSlots == 2

----------------------------------------------------------------------------
(* Constants of lib.rs                                                     *)

FAT16_MAX_CLUSTERS == 65525
FAT12_MAX_CLUSTERS == 4085
EXPECTED_FILE_MAGIC == <<86, 70, 70, 32>>
ROOT_SIZE == 4096
HEADER_SIZE == 16
HEADER_SKIP == 16

\* SupportedFAT::get_reserved_marker, FAT16
get_reserved_marker == 65520

\* SupportedFAT::mask, FAT16
mask(input) == BitAnd(input, 65535)

----------------------------------------------------------------------------
(* Link classification                                                     *)

is_available(v) == v = 0

is_used_inclusive(v) == 1 <= v /\ v <= get_reserved_marker
is_used(v) == 1 <= v /\ v < get_reserved_marker

is_bad(v) == v = get_reserved_marker + 7

is_last_from_bad(v) == get_reserved_marker + 7 <= v
is_last(v) == get_reserved_marker + 8 <= v

Unclassified ==
    [done |-> FALSE, available |-> FALSE, used |-> FALSE, bad |-> FALSE, last |-> FALSE]

Classify ==
    /\ ~cls.done
    /\ cls' = [done |-> TRUE, available |-> is_available(x), used |-> is_used(x),
               bad |-> is_bad(x), last |-> is_last(x)]
    /\ UNCHANGED x

----------------------------------------------------------------------------
(* check_header                                                            *)

\* big-endian encodings, as the container stores the header fields
BE16(v) == <<(v \div 256) % 256, v % 256>>
BE32(v) == <<(v \div 16777216) % 256, (v \div 65536) % 256, (v \div 256) % 256, v % 256>>

\* the 0x10 header bytes of a container with the given fields
EncodeHeader(magic, unknown, volume_size, raw_cluster_size) ==
    magic \o BE32(unknown) \o BE32(volume_size) \o BE16(raw_cluster_size) \o <<0, 0>>

\* <([u8; 4], u32, u32, u16)>::unpack_from_be
UnpackU16BE(b, at) == b[at] * 256 + b[at + 1]
UnpackU32BE(b, at) == b[at] * 16777216 + b[at + 1] * 65536 + b[at + 2] * 256 + b[at + 3]

unpack_header(b) ==
    [magic |-> SubSeq(b, 1, 4), unknown |-> UnpackU32BE(b, 5),
     volume_size |-> UnpackU32BE(b, 9), cluster_size |-> UnpackU16BE(b, 13)]

\* u16::checked_mul: "None" on overflow
checked_mul_wrapping(a, b) == [some |-> TRUE, val |-> (a * b) % U16]
checked_mul(a, b) ==
    IF a * b < U16 THEN [some |-> TRUE, val |-> a * b] ELSE [some |-> FALSE, val |-> 0]

InvalidData(context, expected, found) ==
    [kind |-> "InvalidData", context |-> context, expected |-> expected, found |-> found]
Other(msg) == [kind |-> "Other", msg |-> msg]
IOErr == [kind |-> "IOErr"]

NoResult == [kind |-> "None", context |-> ""]

\* format!("{:?}") of a [u8; 4]: the rendering of the byte list
FormatBytes(b) == ToString(b)

check_header(vff_header) ==
    LET u == unpack_header(vff_header)
        scaled == checked_mul(u.cluster_size, 16)
        cluster_size == scaled.val
    IN  IF ~scaled.some
        THEN InvalidData("Checking VFF Header - Compute cluster size",
                         "cluster_size * 16 should not overflow", "Overflow detected")
        ELSE IF cluster_size = 0
        THEN InvalidData("Check VFF Header", "Cluster size != 0", "0")
        ELSE IF u.magic # EXPECTED_FILE_MAGIC
        THEN InvalidData("Check VFF Header: parsing file magic",
                         FormatBytes(EXPECTED_FILE_MAGIC), FormatBytes(u.magic))
        ELSE [kind |-> "Ok", volume_size |-> u.volume_size, cluster_size |-> cluster_size,
              cluster_count |-> u.volume_size \div cluster_size]

----------------------------------------------------------------------------
(* FAT::new and VFF::new                                                   *)

\* FAT::new, lines 64-79: the number of u16 elements of `clusters`
\* (fatsize <= 0xfff5 * 2 and cluster_size < 2^16: the u32 sum cannot overflow)
fat_buf_size(header) ==
    LET cluster_size == header.cluster_size
        fatsize == header.cluster_count * 2
    IN  AndNot(fatsize + cluster_size - 1, cluster_size - 1)

\* VFF::new lines 513-516: read the header, skip 0x10 bytes, check_header
NewReadHeader ==
    /\ hpc = "start"
    /\ IF fdlen < HEADER_SIZE
       THEN /\ vffres' = IOErr
            /\ hpc' = "done"
            /\ UNCHANGED <<fdpos, hres>>
       ELSE /\ fdpos' = HEADER_SIZE + HEADER_SKIP
            /\ hres' = check_header(hdr)
            /\ IF hres'.kind = "Ok"
               THEN hpc' = "fat" /\ UNCHANGED vffres
               ELSE hpc' = "done" /\ vffres' = hres'
    /\ UNCHANGED <<inMagic, inV, inR, hdr, fdlen, fatres>>

\* FAT::new: `clusters` has fat_buf_size elements, read_u16_into fills every
\* element from two bytes of the source
FATNew ==
    /\ hpc = "fat"
    /\ IF hres.cluster_count > FAT16_MAX_CLUSTERS
       THEN /\ fatres' = Other("FAT 32 is not supported")
            /\ UNCHANGED fdpos
       ELSE IF ~(hres.cluster_count > FAT12_MAX_CLUSTERS)
       THEN /\ fatres' = Other("FAT12 is not supported")
            /\ UNCHANGED fdpos
       ELSE LET buf_size == fat_buf_size(hres)
            IN  IF fdpos + 2 * buf_size > fdlen
                THEN /\ fatres' = IOErr
                     /\ UNCHANGED fdpos
                ELSE /\ fatres' = [kind |-> "Ok", len |-> buf_size, from |-> fdpos,
                                   consumed |-> 2 * buf_size]
                     /\ fdpos' = fdpos + 2 * buf_size
    /\ IF fatres'.kind = "Ok"
       THEN hpc' = "root" /\ UNCHANGED vffres
       ELSE hpc' = "done" /\ vffres' = fatres'
    /\ UNCHANGED <<inMagic, inV, inR, hdr, fdlen, hres>>

\* VFF::new lines 518-521: the root directory region and data_offset
NewReadRoot ==
    /\ hpc = "root"
    /\ IF fdpos + ROOT_SIZE > fdlen
       THEN /\ vffres' = IOErr
            /\ UNCHANGED fdpos
       ELSE /\ vffres' = [kind |-> "Ok", root_at |-> fdpos, data_offset |-> fdpos + ROOT_SIZE]
            /\ fdpos' = fdpos + ROOT_SIZE
    /\ hpc' = "done"
    /\ UNCHANGED <<inMagic, inV, inR, hdr, fdlen, hres, fatres>>

----------------------------------------------------------------------------
(* FAT::get_fat16, FAT::get_cluster, FAT::get_chain                        *)

\* FAT.clusters is the sequence `table`; index i of the Vec is table[i + 1]
get_fat16(t, index) ==
    IF index < Len(t)
    THEN [kind |-> "Ok", val |-> t[index + 1]]
    ELSE InvalidData("get_cluster FAT16",
                     "Indexing into the cluster data at a valid location",
                     ToString(<<index, Len(t)>>))

get_cluster(t, index) == get_fat16(t, mask(index))

\* format!("False, the cluster reads: {current:04x}"): the rendering of the value
ChainCorrupt(v) ==
    InvalidData("FAT chain parsing",
                "The first unused cluster in the chain should satisfy is_last",
                ToString(v))

\* get_chain lines 127-128
GcEnter ==
    /\ gcpc = "call"
    /\ chain' = <<>>
    /\ current' = start
    /\ gcpc' = "loop"
    /\ UNCHANGED <<table, start, gcres>>

\* get_chain with a revisited-cluster test the code does not have: a value that
\* is already in the chain ends the walk with the chain corruption error
GcLoopVisited ==
    /\ gcpc = "loop"
    /\ Len(chain) < MaxChain
    /\ IF \E i \in 1 .. Len(chain) : chain[i] = current
       THEN /\ gcres' = ChainCorrupt(current)
            /\ gcpc' = "ret"
            /\ UNCHANGED <<chain, current>>
       ELSE IF is_used(current)
       THEN LET next == get_cluster(table, current)
            IN  /\ chain' = Append(chain, current)
                /\ IF next.kind = "Ok"
                   THEN current' = next.val /\ UNCHANGED <<gcpc, gcres>>
                   ELSE gcres' = next /\ gcpc' = "ret" /\ UNCHANGED current
       ELSE /\ gcres' = IF ~is_last(current) THEN ChainCorrupt(current)
                        ELSE [kind |-> "Ok", chain |-> chain, context |-> ""]
            /\ gcpc' = "ret"
            /\ UNCHANGED <<chain, current>>
    /\ UNCHANGED <<table, start>>

\* get_chain lines 129-140: one evaluation of the loop condition, then either
\* one iteration of the body or the code after the loop
GcLoop ==
    /\ gcpc = "loop"
    /\ Len(chain) < MaxChain
    /\ IF is_used(current)
       THEN LET next == get_cluster(table, current)
            IN  /\ chain' = Append(chain, current)
                /\ IF next.kind = "Ok"
                   THEN current' = next.val /\ UNCHANGED <<gcpc, gcres>>
                   ELSE gcres' = next /\ gcpc' = "ret" /\ UNCHANGED current
       ELSE /\ gcres' = IF ~is_last(current) THEN ChainCorrupt(current)
                        ELSE [kind |-> "Ok", chain |-> chain, context |-> ""]
            /\ gcpc' = "ret"
            /\ UNCHANGED <<chain, current>>
    /\ UNCHANGED <<table, start>>

----------------------------------------------------------------------------
(* ParsedFATEntry: the 32-byte directory record                            *)

RECORD_SIZE == 32
A_DIR == 16
FREE_MARKER == 0
DELETED_MARKER == 229
\* U+FFFD, what from_utf8_lossy puts for a byte that is no valid UTF-8
REPLACEMENT_CHARACTER == 65533

LE16(v) == <<v % 256, (v \div 256) % 256>>
LE32(v) == <<v % 256, (v \div 256) % 256, (v \div 65536) % 256, (v \div 16777216) % 256>>
UnpackU16LE(b, at) == b[at] + b[at + 1] * 256
UnpackU32LE(b, at) == b[at] + b[at + 1] * 256 + b[at + 2] * 65536 + b[at + 3] * 16777216

\* the on-disk record: name @0x00, ext @0x08, attr @0x0B, six 16-bit time and
\* date fields after two single bytes, start @0x1A, size @0x1C
EncodeRecord(name, ext, attr, first, size) ==
    name \o ext \o <<attr, 0, 0>> \o LE16(0) \o LE16(0) \o LE16(0)
         \o LE16(0) \o LE16(0) \o LE16(0) \o LE16(first) \o LE32(size)

\* ParsedFATEntry::from_slice (the fields the walk reads)
from_slice(data) ==
    [name |-> SubSeq(data, 1, 8), ext |-> SubSeq(data, 9, 11), attr |-> data[12],
     start |-> UnpackU16LE(data, 27), size |-> UnpackU32LE(data, 29),
     deleted |-> FALSE]

\* String::from_utf8_lossy over the bytes the model uses: ASCII stays, a byte
\* >= 0x80 that starts no valid sequence becomes U+FFFD
from_utf8_lossy(b) ==
    [i \in 1 .. Len(b) |-> IF b[i] < 128 THEN b[i] ELSE REPLACEMENT_CHARACTER]

\* char::is_whitespace for the characters below 0x80
is_whitespace(c) == c = 32 \/ (9 <= c /\ c <= 13)

RECURSIVE trim_end(_)
trim_end(str) ==
    IF str # <<>> /\ is_whitespace(str[Len(str)])
    THEN trim_end(SubSeq(str, 1, Len(str) - 1))
    ELSE str

to_ascii_lowercase(str) ==
    [i \in 1 .. Len(str) |-> IF 65 <= str[i] /\ str[i] <= 90 THEN str[i] + 32 ELSE str[i]]

nice_name(e) == trim_end(from_utf8_lossy(e.name))
nice_extension(e) == trim_end(from_utf8_lossy(e.ext))

is_dir(e) == BitAnd(e.attr, A_DIR) # 0

nice_full_name(e) ==
    IF is_dir(e) THEN nice_name(e)
    ELSE nice_name(e) \o <<46>> \o nice_extension(e)

----------------------------------------------------------------------------
(* Directory::read and the match of Directory::get                         *)

\* Directory::read, one 32-byte chunk after the other (chunks_exact drops a
\* shorter rest)
RECURSIVE read(_, _)
read(data, with_deleted) ==
    IF Len(data) < RECORD_SIZE THEN <<>>
    ELSE LET parsed == from_slice(SubSeq(data, 1, RECORD_SIZE))
             rest == read(SubSeq(data, RECORD_SIZE + 1, Len(data)), with_deleted)
             kept == [parsed EXCEPT !.deleted = (parsed.name[1] = DELETED_MARKER)]
         IN  IF parsed.name[1] = FREE_MARKER THEN rest
             ELSE IF parsed.name[1] = DELETED_MARKER /\ ~with_deleted THEN rest
             ELSE IF BitAnd(parsed.attr, 15) = 15 THEN rest
             ELSE <<kept>> \o rest

name_matches(entry, name) ==
    to_ascii_lowercase(nice_name(entry)) = to_ascii_lowercase(name)

\* Directory::get lines 369-371: the index of the first record whose short name
\* matches, 0 when none does
first_match(entries, name) ==
    IF \E i \in 1 .. Len(entries) : name_matches(entries[i], name)
    THEN CHOOSE i \in 1 .. Len(entries) :
            /\ name_matches(entries[i], name)
            /\ \A j \in 1 .. (i - 1) : ~name_matches(entries[j], name)
    ELSE 0

----------------------------------------------------------------------------
(* The container after VFF::new                                            *)

\* VFFHeader.cluster_size of the containers of Spec
cluster_size == 16

\* VFF.data_offset: the header, the table as FAT::new consumed it, the root
data_offset == HEADER_SIZE + HEADER_SKIP + 2 * Len(table) + Len(root_data)

source_len == data_offset + Len(disk)

\* the dump_location argument of dump: one path component, "d"
DumpLocation == <<100>>

\* RefCell::borrow_mut and the drop of the RefMut
borrow_mut(b) == b + 1
drop_borrow_leaked(b) == b
drop_borrow(b) == b - 1

\* Vec::truncate
truncate(bytes, size) == SubSeq(bytes, 1, Min(Len(bytes), size))

----------------------------------------------------------------------------
(* Directory::do_operation_recursive, Directory::get, VFF::read_chain      *)

NoDump == [some |-> FALSE, path |-> <<>>]
SomeDump(path) == [some |-> TRUE, path |-> path]

\* one line of the listing: `text`, then " [0x....]" of `size` unless size is
\* -1, then " [DELETED]" when `deleted`
BareLine(path) == [text |-> path, size |-> -1, deleted |-> FALSE]
FileLine(path, e) ==
    [text |-> path \o <<47>> \o nice_full_name(e), size |-> e.size, deleted |-> e.deleted]

\* do_operation_recursive lines 420-424
NewFrame(data, path, dump) ==
    [data |-> data, path |-> path, dump |-> dump, entries |-> read(data, show_deleted),
     i |-> 1, got_ourself |-> FALSE, res |-> <<>>]

Top == stack[Len(stack)]
Entry == Top.entries[Top.i]

is_dot_name(name) == name = <<46>> \/ name = <<46, 46>>

\* do_operation_recursive lines 492-495
finish_lines_if_no_entries(f) ==
    IF f.entries = <<>> THEN Append(f.res, BareLine(f.path)) ELSE f.res
finish_lines(f) ==
    IF ~f.got_ourself THEN Append(f.res, BareLine(f.path)) ELSE f.res

\* what the claims remember of the records of a directory
SeenOf(f) ==
    {[path |-> f.path, dump |-> f.dump.path, name |-> nice_full_name(f.entries[k]),
      first |-> f.entries[k].name[1], dir |-> is_dir(f.entries[k]),
      deleted |-> f.entries[k].deleted, start |-> f.entries[k].start,
      size |-> f.entries[k].size] : k \in 1 .. Len(f.entries)}

Chunks(data) == Len(data) \div RECORD_SIZE

\* an Err leaves through every `?` up to the caller of ls / dump
Fail(e) ==
    /\ pc' = "done"
    /\ ret' = [kind |-> "Err", err |-> e, lines |-> <<>>]
    /\ stack' = <<>>
    /\ failed' = TRUE

\* a panic unwinds the same way; it returns nothing
Panic(msg) ==
    /\ pc' = "done"
    /\ ret' = [kind |-> "Panic", err |-> Other(msg), lines |-> <<>>]
    /\ stack' = <<>>
    /\ failed' = TRUE

Advance(f) == [f EXCEPT !.i = f.i + 1]
SetTop(f) == [stack EXCEPT ![Len(stack)] = f]

\* Directory::ls / Directory::dump up to the first read of the root
Call ==
    /\ pc = "call"
    /\ IF mode = "ls"
       THEN /\ stack' = <<NewFrame(root_data, <<>>, NoDump)>>
            /\ pc' = "loop"
            /\ decodes' = decodes + Chunks(root_data)
            /\ seen' = SeenOf(stack'[1])
            /\ UNCHANGED <<ret, hostdirs, failed>>
       ELSE \E ok \in BOOLEAN :
              IF ok
              THEN /\ hostdirs' = hostdirs \cup {<<DumpLocation>>}
                   /\ stack' = <<NewFrame(root_data, <<>>, SomeDump(<<DumpLocation>>))>>
                   /\ pc' = "loop"
                   /\ decodes' = decodes + Chunks(root_data)
                   /\ seen' = SeenOf(stack'[1])
                   /\ UNCHANGED <<ret, failed>>
              ELSE /\ Fail(IOErr)
                   /\ UNCHANGED <<hostdirs, decodes, seen>>
    /\ UNCHANGED <<mode, show_deleted, root_data, disk, getm, rc, child, file_bytes,
                   borrows, hostfs, reads, swallowed, returned, chainVars>>

\* Directory::get lines 369-390, up to the call of read_chain, for the record
\* named `name`; `want_dir` says which content the caller needs
BeginGet(name, want_dir) ==
    LET entries == read(Top.data, show_deleted)
        k == first_match(entries, name)
        m == entries[k]
        f == [Top EXCEPT !.got_ourself = TRUE]
    IN  /\ decodes' = decodes + Chunks(Top.data)
        /\ IF k = 0
           THEN /\ Fail(IF want_dir
                        THEN InvalidData("Directory::ls get entry from read",
                                         "Directory::get should return another Directory",
                                         "returned nothing")
                        ELSE InvalidData("Directory::ls dumping file get",
                                         "Directory::get returns file bytes", "None"))
                /\ UNCHANGED <<getm, borrows, file_bytes, start, gcpc>>
           ELSE IF is_dir(m) \/ m.size # 0
           THEN IF borrows > 0
                THEN /\ Panic("already borrowed: BorrowMutError")
                     /\ UNCHANGED <<getm, borrows, file_bytes, start, gcpc>>
                ELSE /\ borrows' = borrow_mut(borrows)
                     /\ getm' = m
                     /\ start' = m.start
                     /\ gcpc' = "call"
                     /\ pc' = "get_chain"
                     /\ stack' = SetTop(f)
                     /\ UNCHANGED <<ret, failed, file_bytes>>
           ELSE IF want_dir
           THEN /\ Fail(InvalidData("Directory::ls get entry from read",
                                    "Directory::get should return another Directory",
                                    "returned file contents"))
                /\ UNCHANGED <<getm, borrows, file_bytes, start, gcpc>>
           ELSE /\ file_bytes' = <<>>
                /\ getm' = m
                /\ pc' = "write"
                /\ stack' = SetTop(f)
                /\ UNCHANGED <<ret, failed, borrows, start, gcpc>>

\* do_operation_recursive lines 424-490: the next record of the directory
Step ==
    /\ pc = "loop"
    /\ Top.i <= Len(Top.entries)
    /\ IF is_dir(Entry) /\ is_dot_name(nice_name(Entry))
       THEN /\ stack' = SetTop(Advance(Top))
            /\ UNCHANGED <<pc, ret, failed, getm, borrows, file_bytes, start, gcpc, decodes>>
       ELSE IF is_dir(Entry)
       THEN BeginGet(nice_name(Entry), TRUE)
       ELSE IF Top.dump.some
       THEN BeginGet(nice_name(Entry), FALSE)
       ELSE /\ stack' = SetTop(Advance([Top EXCEPT !.got_ourself = TRUE,
                                                   !.res = Append(@, FileLine(Top.path, Entry))]))
            /\ UNCHANGED <<pc, ret, failed, getm, borrows, file_bytes, start, gcpc, decodes>>
    /\ UNCHANGED <<mode, show_deleted, root_data, disk, rc, child, hostfs, hostdirs,
                   reads, swallowed, seen, returned, table, current, chain, gcres>>

\* VFF::read_chain line 548: get_chain has returned
AfterChain ==
    /\ pc = "get_chain"
    /\ gcpc = "ret"
    /\ gcpc' = "idle"
    /\ IF gcres.kind # "Ok"
       THEN /\ Fail(gcres)
            /\ borrows' = drop_borrow(borrows)
            /\ UNCHANGED rc
       ELSE /\ rc' = [clusters |-> gcres.chain, k |-> 1, ret |-> <<>>]
            /\ pc' = IF gcres.chain = <<>> THEN "got" ELSE "read_cluster"
            /\ UNCHANGED <<ret, stack, failed, borrows>>
    /\ UNCHANGED <<mode, show_deleted, root_data, disk, getm, child, file_bytes, hostfs,
                   hostdirs, reads, decodes, swallowed, seen, returned,
                   table, start, current, chain, gcres>>

\* VFF::read_cluster for the next cluster of the chain (read_chain lines
\* 550-552). cluster_num - 2 on a u32 below 2 panics where overflow checks are
\* compiled in and wraps to 2^32 - 2 + cluster_num where they are not: the
\* offset is then past the end of every source, and read_exact fails.
ReadCluster ==
    /\ pc = "read_cluster"
    /\ LET cluster_num == rc.clusters[rc.k]
           offset == data_offset + cluster_size * (cluster_num - 2)
           at == offset - data_offset
       IN  IF cluster_num < 2
           THEN \E overflow_checks \in BOOLEAN :
                  /\ IF overflow_checks
                     THEN Panic("attempt to subtract with overflow") /\ UNCHANGED reads
                     ELSE Fail(IOErr) /\ reads' = reads + 1
                  /\ borrows' = drop_borrow(borrows)
                  /\ UNCHANGED rc
           ELSE /\ reads' = reads + 1
                /\ IF offset + cluster_size > source_len
                   THEN /\ Fail(IOErr)
                        /\ borrows' = drop_borrow(borrows)
                        /\ UNCHANGED rc
                   ELSE /\ rc' = [rc EXCEPT !.k = rc.k + 1,
                                            !.ret = @ \o SubSeq(disk, at + 1, at + cluster_size)]
                        /\ pc' = IF rc.k = Len(rc.clusters) THEN "got" ELSE "read_cluster"
                        /\ UNCHANGED <<ret, stack, failed, borrows>>
    /\ UNCHANGED <<mode, show_deleted, root_data, disk, getm, child, file_bytes, hostfs,
                   hostdirs, decodes, swallowed, seen, returned, chainVars>>

\* Directory::get lines 375-398 after read_chain, and the caller's match on the
\* content (lines 435-462, 465-479)
GetReturn ==
    /\ pc = "got"
    /\ borrows' = drop_borrow(borrows)
    /\ IF is_dir(getm)
       THEN IF Len(rc.ret) % RECORD_SIZE # 0
            THEN /\ Fail(InvalidData("Directory::new",
                                     "Construct directory with a multiple of 32 bytes",
                                     ToString(Len(rc.ret))))
                 /\ UNCHANGED <<child, file_bytes>>
            ELSE IF is_dir(Entry)
            THEN /\ child' = [data |-> rc.ret, path |-> Top.path \o <<47>> \o nice_name(getm)]
                 /\ pc' = "descend"
                 /\ UNCHANGED <<ret, stack, failed, file_bytes>>
            ELSE /\ Fail(InvalidData("Directory::ls dumping file get",
                                     "Directory::get returns file bytes", "None"))
                 /\ UNCHANGED <<child, file_bytes>>
       ELSE IF is_dir(Entry)
            THEN /\ Fail(InvalidData("Directory::ls get entry from read",
                                     "Directory::get should return another Directory",
                                     "returned file contents"))
                 /\ UNCHANGED <<child, file_bytes>>
            ELSE /\ file_bytes' = truncate(rc.ret, getm.size)
                 /\ pc' = "write"
                 /\ UNCHANGED <<ret, stack, failed, child>>
    /\ UNCHANGED <<mode, show_deleted, root_data, disk, getm, rc, hostfs, hostdirs,
                   reads, decodes, swallowed, seen, returned, chainVars>>

\* std::fs::create_dir_all: the directory and the ones above it
Prefixes(path) == {SubSeq(path, 1, n) : n \in 1 .. Len(path)}

\* do_operation_recursive lines 436-449: into the child directory
Descend ==
    /\ pc = "descend"
    /\ \E ok \in BOOLEAN :
         IF Top.dump.some /\ ~ok
         THEN /\ Fail(IOErr)
              /\ UNCHANGED <<hostdirs, decodes, seen>>
         ELSE /\ ok
              /\ hostdirs' = IF Top.dump.some THEN hostdirs \cup Prefixes(Top.dump.path)
                             ELSE hostdirs
              /\ LET new_dump == IF Top.dump.some
                                 THEN SomeDump(Append(Top.dump.path, nice_name(Entry)))
                                 ELSE NoDump
                 IN  stack' = Append(stack, NewFrame(child.data, child.path, new_dump))
              /\ pc' = "loop"
              /\ decodes' = decodes + Chunks(child.data)
              /\ seen' = seen \cup SeenOf(stack'[Len(stack')])
              /\ UNCHANGED <<ret, failed>>
    /\ UNCHANGED <<mode, show_deleted, root_data, disk, getm, rc, child, file_bytes,
                   borrows, hostfs, reads, swallowed, returned, chainVars>>

PutFile(fs, path, bytes) == {f \in fs : f.path # path} \cup {[path |-> path, bytes |-> bytes]}

\* do_operation_recursive lines 468-472 and the drop of the BufWriter at the
\* end of the block. write_all on a BufWriter only buffers contents shorter than
\* its capacity (8 KiB): the bytes reach the file when the BufWriter is dropped,
\* and a drop ignores the error of its flush.
WriteFile ==
    /\ pc = "write"
    /\ LET temp == Append(Top.dump.path, nice_full_name(Entry))
       IN  \E io \in {"ok", "create_dir_all fails", "File::create fails", "flush fails"} :
             \/ /\ io = "ok"
                /\ hostdirs' = hostdirs \cup Prefixes(Top.dump.path)
                /\ hostfs' = PutFile(hostfs, temp, file_bytes)
                /\ stack' = SetTop(Advance(Top))
                /\ pc' = "loop"
                /\ UNCHANGED <<ret, failed, swallowed>>
             \/ /\ io = "create_dir_all fails"
                /\ Fail(IOErr)
                /\ UNCHANGED <<hostdirs, hostfs, swallowed>>
             \/ /\ io = "File::create fails"
                /\ hostdirs' = hostdirs \cup Prefixes(Top.dump.path)
                /\ Fail(IOErr)
                /\ UNCHANGED <<hostfs, swallowed>>
             \/ /\ io = "flush fails"
                /\ file_bytes # <<>>
                /\ hostdirs' = hostdirs \cup Prefixes(Top.dump.path)
                /\ hostfs' = PutFile(hostfs, temp, <<>>)
                /\ stack' = SetTop(Advance(Top))
                /\ pc' = "loop"
                /\ failed' = TRUE
                /\ swallowed' = TRUE
                /\ UNCHANGED ret
    /\ UNCHANGED <<mode, show_deleted, root_data, disk, getm, rc, child, file_bytes,
                   borrows, reads, decodes, seen, returned, chainVars>>

OnlyDots(entries) ==
    \A k \in 1 .. Len(entries) :
        is_dir(entries[k]) /\ is_dot_name(nice_name(entries[k]))

\* do_operation_recursive lines 492-495, and lines 446-449 of the caller
ReturnFrame ==
    /\ pc = "loop"
    /\ Top.i > Len(Top.entries)
    /\ LET res == finish_lines(Top)
       IN  /\ returned' = returned \cup
                 {[path |-> Top.path, depth |-> Len(stack), only_dots |-> OnlyDots(Top.entries),
                   records |-> Len(Top.entries), res |-> res]}
           /\ IF Len(stack) = 1
              THEN /\ pc' = "done"
                   /\ stack' = <<>>
                   /\ ret' = [kind |-> "Ok", err |-> NoResult,
                              lines |-> IF mode = "ls" THEN res ELSE <<>>]
              ELSE LET parent == stack[Len(stack) - 1]
                   IN  /\ stack' = [SubSeq(stack, 1, Len(stack) - 1) EXCEPT ![Len(stack) - 1] =
                                       Advance([parent EXCEPT !.res = @ \o res])]
                       /\ UNCHANGED <<pc, ret>>
    /\ UNCHANGED <<mode, show_deleted, root_data, disk, getm, rc, child, file_bytes,
                   borrows, hostfs, hostdirs, reads, decodes, failed, swallowed, seen,
                   chainVars>>

----------------------------------------------------------------------------
(* Inputs                                                                  *)

\* magic bytes: "VFF ", "VFF\0", "XFF ", "FFV "
Magics == {EXPECTED_FILE_MAGIC, <<86, 70, 70, 0>>, <<88, 70, 70, 32>>, <<70, 70, 86, 32>>}

\* volume sizes around the FAT12 / FAT16 / FAT32 limits, the fixture's
\* 0x1400000 and the extremes (0, 2^31 - 1)
VolumeSizes ==
    {0, 4096, 65360, 65376, 196608, 1048400, 1048560, 1048576, 20971520,
     33553920, MaxInt}

\* raw cluster sizes: zero, small, not a power of two, the fixture's 0x20, the
\* largest that scales to a u16, the smallest that overflows, the largest u16
RawClusterSizes == {0, 1, 2, 3, 5, 32, 4095, 4096, 65535}

LinkValues == (0 .. TableLen) \cup {65519, 65520, 65527, 65528, 65535}

\* a start cluster is a u32: one value above the 16-bit space as well
StartValues == LinkValues \cup {65538}

\* ---- containers of Spec

Pad(str, n) == str \o [i \in 1 .. (n - Len(str)) |-> 32]
Rec(name, ext, attr, first, size) == EncodeRecord(Pad(name, 8), Pad(ext, 3), attr, first, size)
FreeSlot == [i \in 1 .. RECORD_SIZE |-> 0]

\* records of the root directory
\*   A.X   file, cluster 2, 5 bytes          a.Y   file, cluster 3, 20 bytes
\*   A     directory, cluster 4              Z.    empty file
\*   ?B.X  deleted file, cluster 2           ?D    deleted directory, cluster 4
\*   C.X   file, start cluster 1             a free slot
RootRecords ==
    {Rec(<<65>>, <<88>>, 32, 2, 5),
     Rec(<<97>>, <<89>>, 0, 3, 20),
     Rec(<<65>>, <<>>, 16, 4, 0),
     Rec(<<229, 66>>, <<88>>, 0, 2, 5),
     Rec(<<229, 68>>, <<>>, 16, 4, 0),
     Rec(<<90>>, <<>>, 0, 0, 0),
     Rec(<<67>>, <<88>>, 0, 1, 4),
     FreeSlot}

RECURSIVE Regions(_)
Regions(n) ==
    IF n = 0 THEN {<<>>}
    ELSE {r \o rest : r \in RootRecords, rest \in Regions(n - 1)}

\* the two records stored in clusters 4-5 and 6-7
\*   "." and ".."                            C.X (cluster 3, 3 bytes) and a long-name stub
\*   D (directory, cluster 6) and C.Y (cluster 2, 16 bytes)
\*   ?C.X deleted (cluster 3, 3 bytes) and "."        two free slots
SubRecords ==
    {<<Rec(<<46>>, <<>>, 16, 4, 0), Rec(<<46, 46>>, <<>>, 16, 0, 0)>>,
     <<Rec(<<67>>, <<88>>, 0, 3, 3), Rec(<<65>>, <<88>>, 15, 0, 0)>>,
     <<Rec(<<68>>, <<>>, 16, 6, 0), Rec(<<67>>, <<89>>, 0, 2, 16)>>,
     <<Rec(<<229, 67>>, <<88>>, 0, 3, 3), Rec(<<46>>, <<>>, 16, 6, 0)>>,
     <<FreeSlot, FreeSlot>>}

FileCluster(b) == [i \in 1 .. cluster_size |-> b + i]

\* clusters 2 and 3 hold file bytes, 4-5 and 6-7 one record each
Disk(sub) == FileCluster(100) \o FileCluster(200 - cluster_size) \o sub[1] \o sub[2]

\* allocation tables, entries 0..8
\*   every chain well formed: 2, 3, 4-5, 6-7
\*   2-3 a file of two clusters, 4-5-6-7 a directory of four
\*   cluster 2 links to 0 (free)             cluster 2 links to 9 (no entry)
\*   cluster 4 alone (half a record)         6-7-8, cluster 8 past the source
Tables ==
    {<<65528, 65535, 65535, 65535, 5, 65535, 7, 65535, 65535>>,
     <<65528, 65535, 3, 65535, 5, 6, 7, 65535, 65535>>,
     <<65528, 65535, 0, 65535, 5, 65535, 7, 65535, 65535>>,
     <<65528, 65535, 9, 65535, 5, 65535, 7, 65535, 65535>>,
     <<65528, 65535, 65535, 65535, 65535, 65535, 7, 65535, 65535>>,
     <<65528, 65535, 65535, 65535, 5, 65535, 7, 8, 65535>>}

----------------------------------------------------------------------------
(* Specifications                                                          *)

ClassIdle  == x = 0 /\ cls = [Unclassified EXCEPT !.done = TRUE]
HeaderIdle ==
    /\ inMagic = <<>> /\ inV = 0 /\ inR = 0 /\ hdr = <<>> /\ fdlen = 0 /\ fdpos = 0
    /\ hpc = "idle" /\ hres = NoResult /\ fatres = NoResult /\ vffres = NoResult
ChainIdle  ==
    /\ table = <<>> /\ start = 0 /\ current = 0 /\ chain = <<>>
    /\ gcpc = "idle" /\ gcres = NoResult

NoEntry == [name |-> <<>>, ext |-> <<>>, attr |-> 0, start |-> 0, size |-> 0, deleted |-> FALSE]
NoChain == [clusters |-> <<>>, k |-> 0, ret |-> <<>>]
NoDirectory == [data |-> <<>>, path |-> <<>>]
NoReturn == [kind |-> "None", err |-> NoResult, lines |-> <<>>]
WalkIdle ==
    /\ mode = "idle" /\ show_deleted = FALSE /\ root_data = <<>> /\ disk = <<>>
    /\ pc = "idle" /\ stack = <<>> /\ getm = NoEntry /\ rc = NoChain
    /\ child = NoDirectory /\ file_bytes = <<>> /\ borrows = 0 /\ ret = NoReturn
    /\ hostfs = {} /\ hostdirs = {}
    /\ reads = 0 /\ decodes = 0 /\ failed = FALSE /\ swallowed = FALSE
    /\ seen = {} /\ returned = {}

InitClass ==
    /\ x \in 0 .. (U16 - 1)
    /\ cls = Unclassified
    /\ HeaderIdle /\ ChainIdle /\ WalkIdle
NextClass == Classify /\ UNCHANGED <<headerVars, chainVars, walkVars, histVars>>
SpecClass == InitClass /\ [][NextClass]_vars

InitHeader ==
    /\ inMagic \in Magics
    /\ inV \in VolumeSizes
    /\ inR \in RawClusterSizes
    /\ \E unknown \in {0, 305419896} : hdr = EncodeHeader(inMagic, unknown, inV, inR)
    /\ fdlen \in {inV, MaxInt}
    /\ fdpos = 0
    /\ hpc = "start"
    /\ hres = NoResult /\ fatres = NoResult /\ vffres = NoResult
    /\ ClassIdle /\ ChainIdle /\ WalkIdle
NextHeader ==
    \/ NewReadHeader /\ UNCHANGED <<classVars, chainVars, walkVars, histVars>>
    \/ FATNew /\ UNCHANGED <<classVars, chainVars, walkVars, histVars>>
    \/ NewReadRoot /\ UNCHANGED <<classVars, chainVars, walkVars, histVars>>
SpecHeader == InitHeader /\ [][NextHeader]_vars

InitChain ==
    /\ table \in [1 .. TableLen -> LinkValues]
    /\ start \in StartValues
    /\ current = 0 /\ chain = <<>>
    /\ gcpc = "call"
    /\ gcres = NoResult
    /\ ClassIdle /\ HeaderIdle /\ WalkIdle
NextChain ==
    \/ GcEnter /\ UNCHANGED <<classVars, headerVars, walkVars, histVars>>
    \/ GcLoop /\ UNCHANGED <<classVars, headerVars, walkVars, histVars>>
SpecChain == InitChain /\ [][NextChain]_vars
\* get_chain is sequential code on the calling thread: a step that can be taken
\* is taken
SpecChainLive == SpecChain /\ WF_vars(NextChain)

InitWalk ==
    /\ mode \in {"ls", "dump"}
    /\ show_deleted \in BOOLEAN
    /\ root_data \in Regions(RootSlots)
    /\ \E sub \in SubRecords : disk = Disk(sub)
    /\ table \in Tables
    /\ pc = "call"
    /\ stack = <<>> /\ getm = NoEntry /\ rc = NoChain
    /\ child = NoDirectory /\ file_bytes = <<>> /\ borrows = 0 /\ ret = NoReturn
    /\ hostfs = {} /\ hostdirs = {}
    /\ reads = 0 /\ decodes = 0 /\ failed = FALSE /\ swallowed = FALSE
    /\ seen = {} /\ returned = {}
    /\ start = 0 /\ current = 0 /\ chain = <<>> /\ gcpc = "idle" /\ gcres = NoResult
    /\ ClassIdle /\ HeaderIdle
Next ==
    \/ Call /\ UNCHANGED <<classVars, headerVars>>
    \/ Step /\ UNCHANGED <<classVars, headerVars>>
    \/ pc = "get_chain" /\ GcEnter /\ UNCHANGED <<classVars, headerVars, walkVars, histVars>>
    \/ pc = "get_chain" /\ GcLoop /\ UNCHANGED <<classVars, headerVars, walkVars, histVars>>
    \/ AfterChain /\ UNCHANGED <<classVars, headerVars>>
    \/ ReadCluster /\ UNCHANGED <<classVars, headerVars>>
    \/ GetReturn /\ UNCHANGED <<classVars, headerVars>>
    \/ Descend /\ UNCHANGED <<classVars, headerVars>>
    \/ WriteFile /\ UNCHANGED <<classVars, headerVars>>
    \/ ReturnFrame /\ UNCHANGED <<classVars, headerVars>>
Spec == InitWalk /\ [][Next]_vars

----------------------------------------------------------------------------
(* Claims about the allocation table and the header                        *)

NoDuplicates(c) == \A i, j \in 1 .. Len(c) : i # j => c[i] # c[j]

\* c is the sequence start, table[start], table[table[start]], ... of used
\* values and term is the first value after it, which is not used
IsWalk(c, term) ==
    /\ \A i \in 1 .. Len(c) : 1 <= c[i] /\ c[i] < 65520 /\ c[i] < Len(table)
    /\ ~(1 <= term /\ term < 65520)
    /\ IF c = <<>>
       THEN term = start
       ELSE /\ c[1] = start
            /\ \A i \in 1 .. (Len(c) - 1) : c[i + 1] = table[c[i] + 1]
            /\ term = table[c[Len(c)] + 1]

\* C2. Chain walk result: when every table lookup was in range and no cluster
\* was visited twice, get_chain(start) has walked start, table[start], ... while
\* the value is used (1 <= v < 0xfff0); it returns exactly the used values
\* visited, in order, when the first value that is not used is in
\* 0xfff8..0xffff, and a chain corruption error reporting that value when it is
\* 0 or in 0xfff0..0xfff7. A start >= 0xfff8 gives the empty chain, start 0 the
\* error.
C2_ChainWalkResult ==
    (gcpc = "ret" /\ gcres.context # "get_cluster FAT16" /\ NoDuplicates(chain)) =>
        /\ IsWalk(chain, current)
        /\ current >= 65528 => gcres = [kind |-> "Ok", chain |-> chain, context |-> ""]
        /\ current < 65528 =>
              /\ gcres.kind = "InvalidData"
              /\ gcres.context = "FAT chain parsing"
              /\ gcres.found = ToString(current)
        /\ start >= 65528 => gcres.kind = "Ok" /\ gcres.chain = <<>>
        /\ start = 0 => gcres.kind = "InvalidData" /\ gcres.found = ToString(0)

\* a chain of two clusters or more was returned
C2_Witness ==
    gcpc = "ret" /\ gcres.kind = "Ok" /\ Len(chain) >= 2 /\ NoDuplicates(chain)

RECURSIVE StaysUsed(_, _)
\* v and the n values after it in v, table[v], table[table[v]], ... are all
\* used and all index the table
StaysUsed(v, n) ==
    /\ 1 <= v /\ v < 65520 /\ v < Len(table)
    /\ (n = 0 \/ StaysUsed(table[v + 1], n - 1))

\* The sequence from start revisits a cluster: the used values that index the
\* table are fewer than its entries, so a sequence that stays among them for
\* Len(table) steps has repeated one, and one that repeats stays among them
Revisits == StaysUsed(start, Len(table))

\* C11. Chain walk termination: when the sequence start, table[start], ... of
\* used values never repeats a cluster, get_chain(start) terminates, with a
\* chain or with an error, and a returned chain has no duplicate and at most as
\* many elements as the table has entries; when the sequence revisits a
\* cluster (a cycle, or table[c] = c), get_chain never returns and its chain
\* keeps growing, here up to MaxChain elements, past every cluster of the cycle.
C11_ChainWalkTermination ==
    /\ (gcpc = "call" /\ ~Revisits) ~> (gcpc = "ret")
    /\ []((gcpc = "ret" /\ ~Revisits /\ gcres.kind = "Ok") =>
              (NoDuplicates(chain) /\ Len(chain) <= Len(table)))
    /\ [](Revisits => gcpc # "ret")
    /\ (gcpc = "call" /\ Revisits) ~> (Len(chain) = MaxChain /\ ~NoDuplicates(chain))

\* the walk is in a cycle: it is still in the loop with a cluster in the chain
\* twice and the chain at the bound
C11_Witness ==
    gcpc = "loop" /\ Revisits /\ Len(chain) = MaxChain /\ ~NoDuplicates(chain)

CountTrue(c) ==
    (IF c.available THEN 1 ELSE 0) + (IF c.used THEN 1 ELSE 0)
    + (IF c.bad THEN 1 ELSE 0) + (IF c.last THEN 1 ELSE 0)

ClassRanges ==
    /\ cls.available <=> x = 0
    /\ cls.used <=> (1 <= x /\ x <= 65519)
    /\ cls.bad <=> x = 65527
    /\ cls.last <=> (65528 <= x /\ x <= 65535)

\* C3 as stated. Classification partition: for every 16-bit link value x
\* exactly one of is_available, is_used, is_bad, is_last is true, with 0
\* available, 1..0xffef used, 0xfff7 bad and 0xfff8..0xffff last.
C3_Original == cls.done => (CountTrue(cls) = 1 /\ ClassRanges)

\* C3 as amended. For every 16-bit link value x at most one of the four
\* predicates is true, with 0 available, 1..0xffef used, 0xfff7 bad and
\* 0xfff8..0xffff last; none is true exactly for the reserved values
\* 0xfff0..0xfff6.
C3_ClassificationPartition ==
    cls.done =>
        /\ CountTrue(cls) <= 1
        /\ ClassRanges
        /\ CountTrue(cls) = 0 <=> (65520 <= x /\ x <= 65526)

\* a reserved value has been classified, and is in no class
C3_Witness == cls.done /\ x = 65523 /\ CountTrue(cls) = 0

\* C4. Magic mismatch: for every header whose first 4 bytes differ from "VFF ",
\* whatever the other fields, check_header returns a malformed-data error whose
\* expected field names the expected magic and whose found field names the
\* magic read.
C4_MagicMismatch ==
    (hres.kind # "None" /\ inMagic # EXPECTED_FILE_MAGIC) =>
        /\ hres.kind = "InvalidData"
        /\ hres.expected = FormatBytes(EXPECTED_FILE_MAGIC)
        /\ hres.found = FormatBytes(inMagic)

CeilDiv(a, b) == (a + b - 1) \div b

\* C5. Allocation table size and layout: for every accepted header the number
\* of bytes FAT::new consumes equals ceil(cluster_count*2 / cluster_size) *
\* cluster_size; the root directory region is read from 0x20 + that length and
\* data_offset is 0x20 + that length + 0x1000.
C5_TableSize ==
    LET length == CeilDiv(hres.cluster_count * 2, hres.cluster_size) * hres.cluster_size
    IN  /\ fatres.kind = "Ok" => fatres.consumed = length
        /\ vffres.kind = "Ok" =>
              /\ vffres.root_at = 32 + length
              /\ vffres.data_offset = 32 + length + 4096

\* C6. Header round-trip: for magic "VFF ", volume size V and raw cluster size
\* R with 1 <= R <= 4095 check_header returns volume_size V, cluster_size R*16
\* and cluster_count V div (R*16); for R = 0 and R >= 4096 it returns a
\* malformed-data error, and never a header with cluster_size 0.
C6_HeaderRoundTrip ==
    (hres.kind # "None" /\ inMagic = EXPECTED_FILE_MAGIC) =>
        /\ (1 <= inR /\ inR <= 4095) =>
              hres = [kind |-> "Ok", volume_size |-> inV, cluster_size |-> inR * 16,
                      cluster_count |-> inV \div (inR * 16)]
        /\ (inR = 0 \/ inR >= 4096) => hres.kind = "InvalidData"
        /\ hres.kind = "Ok" => hres.cluster_size # 0

\* the fixture's header (test.rs vff_header) has been parsed
C6_Witness ==
    /\ hres.kind = "Ok" /\ inR = 32 /\ inV = 20971520
    /\ hres.cluster_size = 512 /\ hres.cluster_count = 40960

----------------------------------------------------------------------------
(* Claims about ls and dump                                                *)

\* the bytes of cluster c of the data region
ClusterBytes(c) == SubSeq(disk, (c - 2) * cluster_size + 1, (c - 1) * cluster_size)

\* the clusters of the chain from c, concatenated in chain order
RECURSIVE ChainBytes(_, _)
ChainBytes(c, fuel) ==
    IF fuel = 0 \/ c < 2 \/ c >= 65520 \/ c >= Len(table) THEN <<>>
    ELSE ClusterBytes(c) \o ChainBytes(table[c + 1], fuel - 1)

\* a record's own contents: its chain, cut to its declared size
OwnBytes(r) ==
    IF r.size = 0 THEN <<>>
    ELSE LET all == ChainBytes(r.start, Len(table))
         IN  SubSeq(all, 1, Min(Len(all), r.size))

\* C1. Dump fidelity: after a successful dump, for every non-directory record
\* visited by the traversal the file at <dest>/<directory path>/<nice_full_name>
\* holds exactly the bytes of that record's own cluster chain, cut to that
\* record's declared size (empty for size 0), also in directories where several
\* records share the short name. (Stated for the dumps in which every host
\* write went through.)
C1_DumpFidelity ==
    (pc = "done" /\ mode = "dump" /\ ret.kind = "Ok" /\ ~swallowed) =>
        \A r \in seen :
            ~r.dir => \E f \in hostfs : f.path = Append(r.dump, r.name) /\ f.bytes = OwnBytes(r)

\* C7. Deleted-entry visibility: in ls(show_deleted = true) every record
\* reached whose first name byte is 0xE5, file or directory, is surfaced by a
\* line that carries " [DELETED]"; in ls(show_deleted = false) no such record
\* contributes a line or is descended into.
C7_DeletedVisibility ==
    (pc = "done" /\ mode = "ls" /\ ret.kind = "Ok") =>
        /\ show_deleted =>
              \A r \in seen :
                  r.first = DELETED_MARKER =>
                      \E k \in 1 .. Len(ret.lines) :
                          /\ ret.lines[k].text = r.path \o <<47>> \o r.name
                          /\ ret.lines[k].deleted
        /\ ~show_deleted =>
              /\ \A r \in seen : r.first # DELETED_MARKER
              /\ \A k \in 1 .. Len(ret.lines) : ~ret.lines[k].deleted

\* C8. Empty-directory representation: a directory, the root included, whose
\* records surviving read(show_deleted) are only directory-attributed "." and
\* ".." (or that has none) lists as exactly one line, its bare path; a directory
\* with a surviving file record or another subdirectory record contributes no
\* bare-path line of its own.
C8_EmptyDirectory ==
    mode = "ls" =>
        \A r \in returned :
            /\ r.only_dots => r.res = <<BareLine(r.path)>>
            /\ ~r.only_dots => \A k \in 1 .. Len(r.res) : r.res[k] # BareLine(r.path)

\* a subdirectory holding nothing but dot entries has been listed
C8_Witness ==
    /\ mode = "ls"
    /\ \E r \in returned :
          r.only_dots /\ r.records > 0 /\ r.depth > 1 /\ r.res = <<BareLine(r.path)>>

\* C9. All-or-nothing errors: every ls or dump ends in one of two outcomes, a
\* complete result or a single error; the first failing step stops the
\* traversal at once (nothing is read, decoded, written or processed after it)
\* and ls delivers no lines with the error.
C9_AllOrNothing ==
    /\ pc = "done" => ret.kind \in {"Ok", "Err"}
    /\ failed => pc = "done" /\ ret.kind = "Err" /\ ret.lines = <<>>
    /\ (pc = "done" /\ ret.kind = "Ok") => ~failed

\* C10. Exclusive access discipline: at most one mutable borrow of the shared
\* handle is outstanding; each borrow taken in Directory::get is released
\* before get returns, on the success path and on every error path, so none is
\* held while the walk recurses, processes a sibling or writes a host file, and
\* borrow_mut is never attempted while one is live.
C10_ExclusiveAccess ==
    /\ borrows \in {0, 1}
    /\ pc \notin {"get_chain", "read_cluster", "got"} => borrows = 0
    /\ ret.kind = "Panic" => ret.err.msg # "already borrowed: BorrowMutError"

\* inside a child directory, get has read a file's clusters and returned: the
\* host file is about to be written
C10_Witness == pc = "write" /\ Len(stack) > 1 /\ Len(rc.ret) > 0 /\ borrows = 0

\* C12. Cluster numbers are never below 2 at the store: every cluster number
\* that read_chain passes to read_cluster is >= 2, so cluster_num - 2 does not
\* underflow, the walk does not panic on it, and the offset of the read is not
\* below data_offset; cluster 1 is never read as data.
C12_ClusterNumberAtLeastTwo ==
    /\ pc = "read_cluster" =>
          /\ rc.clusters[rc.k] >= 2
          /\ data_offset + cluster_size * (rc.clusters[rc.k] - 2) >= data_offset
    /\ ret.kind # "Panic"

====
